---- MODULE Spec2Model ----
(***************************************************************************)
(* A model of etl.py: a batch job that reads song records and usage-log    *)
(* records, derives the tables songs, artists, users, time and songplays   *)
(* and writes each to a fixed output location.                             *)
(*                                                                         *)
(* The dataframe engine is modelled by what the calls of etl.py do:        *)
(*   - spark.read.json(path, schema) keeps the declared columns only and   *)
(*     coerces each value to the declared type;                            *)
(*   - spark.read.json(path) infers the columns from the records;          *)
(*   - df.select(c1, ..) is analysed when it is called and raises an       *)
(*     AnalysisException when a column is not a column of df;              *)
(*   - df.write.parquet(path) runs in the writer's default save mode,      *)
(*     which raises when the path exists, and otherwise runs the job that  *)
(*     evaluates the rows (Python UDFs included) and stores them;          *)
(*   - a Python UDF is evaluated once per row, when a job runs; a job that  *)
(*     fails leaves no table at the location it was writing.                *)
(* Each input glob matches files; the records are what the files hold.     *)
(* The Python process and the Spark session share one time zone, UTC.      *)
(* An exception is never caught in etl.py: it ends the run.                *)
(***************************************************************************)
EXTENDS Integers, Sequences, FiniteSets, TLC

VARIABLES
    entry,        \* the function of etl.py this run invoked: main, or one pipeline called alone
    pc,           \* position of the run
    song_data,    \* the records under data/song_data/song_data/*/*/*/*.json
    log_data,     \* the records under data/log_data/*.json
    store,        \* the five output locations: [exists, rows, partitionBy]
    prior,        \* the output locations that existed when the run started
    written,      \* the tables this run has written, in the order of the writes
    sessions,     \* the number of Spark sessions built in the process
    songStatus,   \* process_song_data: not_called, returned, raised
    logStatus,    \* process_log_data: not_called, running, returned, raised
    raisedAt,     \* the source line that raised, 0 when nothing has
    part_df,      \* a partitioned dataframe handed to withColumn("songplay_id", ..)
    id_df         \* the result of that withColumn, <<>> before it has run

vars == <<entry, pc, song_data, log_data, store, prior, written, sessions,
          songStatus, logStatus, raisedAt, part_df, id_df>>

-----------------------------------------------------------------------------
(* Bounds of the model *)

MaxSongs == 2
MaxLogs == 2
MaxPartRows == 2
ShufflePartitions == 2

-----------------------------------------------------------------------------
(* Values and inputs *)

Null == "null"

Range(s) == {s[i] : i \in 1..Len(s)}

SeqsUpTo(S, n) == UNION {[1..k -> S] : k \in 0..n}

RECURSIVE SetToSeq(_)
SetToSeq(S) ==
    IF S = {} THEN <<>>
    ELSE LET x == CHOOSE y \in S : TRUE IN <<x>> \o SetToSeq(S \ {x})

\* A song file holds one JSON record with these fields.
SongRecord(sid, ttl, aid, aname, yr) ==
    [num_songs |-> 1, song_id |-> sid, title |-> ttl, artist_id |-> aid,
     artist_name |-> aname, artist_location |-> "LA", artist_latitude |-> 34,
     artist_longitude |-> 118, year |-> yr, duration |-> 180]

SongRecords ==
    { SongRecord("S1", "T1", "A1", "Artist X", 2000),
      SongRecord("S2", "T2", "A1", "Artist X", 2001),
      SongRecord(Null, "T3", "A2", "Artist Y", 2000) }

\* ts is milliseconds since the epoch, kept as <<seconds, milliseconds>>: the
\* value is ts[1] * 1000 + ts[2].
LogRecord(pg, art, uid, lvl, sess, t) ==
    [artist |-> art, auth |-> "Logged In", firstName |-> "F" \o uid, gender |-> "F",
     itemInSession |-> 0, lastName |-> "L" \o uid, length |-> 180, level |-> lvl,
     location |-> "LA", method |-> "PUT", page |-> pg, registration |-> 1,
     sessionId |-> sess, song |-> "T1", status |-> 200, ts |-> t,
     userAgent |-> "UA", userId |-> uid]

LogRecords ==
    { LogRecord("NextSong", "Artist X", "U1", "free", 1, <<946684800, 0>>),
      LogRecord("NextSong", "Artist Z", "U1", "paid", 2, <<951876245, 796>>),
      LogRecord("Home", Null, "U2", "free", 3, <<946684800, 0>>) }

Tables == {"songs_table", "artists_table", "users_table", "time_table",
           "songplays_table"}

Absent == [exists |-> FALSE, rows |-> <<>>, partitionBy |-> <<>>]

\* What an earlier run left at an output location.
PriorContent == [exists |-> TRUE, rows |-> <<[prior_run |-> TRUE]>>, partitionBy |-> <<>>]

PriorChoices == { {}, Tables, {"songs_table", "artists_table"}, {"users_table"},
                  {"time_table"}, {"songplays_table"} }

-----------------------------------------------------------------------------
(* The engine calls etl.py makes *)

\* The fields whose JSON value is a number; every other value is a string or null.
NumberFields == {"num_songs", "artist_latitude", "artist_longitude", "year", "duration",
                 "itemInSession", "length", "registration", "sessionId", "status"}

\* The declared type's coercion of the JSON value of field c: a StringType
\* column takes the text of a number.
Coerce(type, c, v) ==
    IF c \in NumberFields /\ type = "string" THEN ToString(v) ELSE v

SchemaColumns(schema) == {schema[i][1] : i \in 1..Len(schema)}

SchemaType(schema, c) == (CHOOSE i \in 1..Len(schema) : schema[i][1] = c)

\* spark.read.json(path, schema=schema)
read_json_schema(records, schema) ==
    [columns |-> SchemaColumns(schema),
     rows |-> [i \in 1..Len(records) |->
                 [c \in SchemaColumns(schema) |->
                    IF c \in DOMAIN records[i]
                    THEN Coerce(schema[SchemaType(schema, c)][2], c, records[i][c])
                    ELSE Null]]]

\* spark.read.json(path): the columns are the fields found in the records.
read_json_infer(records) ==
    LET cols == UNION {DOMAIN records[i] : i \in 1..Len(records)}
    IN [columns |-> cols,
        rows |-> [i \in 1..Len(records) |->
                    [c \in cols |-> IF c \in DOMAIN records[i] THEN records[i][c] ELSE Null]]]

\* df.select(cols): raises when a name is not a column of df.
select(df, cols) ==
    IF \E i \in 1..Len(cols) : cols[i] \notin df.columns
    THEN [ok |-> FALSE, df |-> [columns |-> {}, rows |-> <<>>]]
    ELSE [ok |-> TRUE,
          df |-> [columns |-> Range(cols),
                  rows |-> [i \in 1..Len(df.rows) |->
                              [c \in Range(cols) |-> df.rows[i][c]]]]]

\* df.write[.partitionBy(..)].parquet(path), no mode given: the default save
\* mode raises when the path exists.
write_parquet(st, path, rows, partitionBy) ==
    IF st[path].exists
    THEN [ok |-> FALSE, store |-> st]
    ELSE [ok |-> TRUE,
          store |-> [st EXCEPT ![path] =
                       [exists |-> TRUE, rows |-> rows, partitionBy |-> partitionBy]]]

\* The rows of df for which the predicate page = value holds (a null page
\* does not satisfy it).
filter_page(df, value) ==
    [columns |-> df.columns,
     rows |-> SelectSeq(df.rows, LAMBDA r : r.page # Null /\ r.page = value)]

-----------------------------------------------------------------------------
(* process_song_data *)

song_data_schema ==
    << <<"song_id", "string">>, <<"year", "string">>, <<"duration", "double">>,
       <<"artist_id", "string">>, <<"artist_name", "string">>,
       <<"artist_location", "string">>, <<"artist_latitude", "double">>,
       <<"artist_longitude", "double">> >>

songs_columns == <<"song_id", "title", "artist_id", "year", "duration">>

artists_columns == <<"artist_id", "artist_name", "artist_location", "artist_latitude",
                     "artist_longitude", "num_songs">>

\* What a pipeline call leaves: the store, the tables it wrote, and the line
\* that raised (0: it returned).
Outcome(st, wrote, line) == [store |-> st, wrote |-> wrote, line |-> line]

\* The body of process_song_data on the song records and the store.
run_song_data(records, st) ==
    LET song_df == read_json_schema(records, song_data_schema)
        songs_table == select(song_df, songs_columns)
    IN IF ~songs_table.ok THEN Outcome(st, <<>>, 69)
       ELSE
       LET w1 == write_parquet(st, "songs_table", songs_table.df.rows,
                               <<"year", "artist_id">>)
       IN IF ~w1.ok THEN Outcome(st, <<>>, 72)
          ELSE
          LET artists_table == select(song_df, artists_columns)
          IN IF ~artists_table.ok THEN Outcome(w1.store, <<"songs_table">>, 75)
             ELSE
             LET w2 == write_parquet(w1.store, "artists_table",
                                     artists_table.df.rows, <<>>)
             IN IF ~w2.ok THEN Outcome(w1.store, <<"songs_table">>, 78)
                ELSE Outcome(w2.store, <<"songs_table", "artists_table">>, 0)

-----------------------------------------------------------------------------
(* Calendar extraction from a timestamp [sec, micros], session time zone UTC *)

DaysOf(t) == t.sec \div 86400

IsLeap(y) == (y % 4 = 0 /\ y % 100 # 0) \/ y % 400 = 0

\* The leap years before year y.
LeapsBefore(y) == (y - 1) \div 4 - (y - 1) \div 100 + (y - 1) \div 400

\* The day count of 1 January of year y, since 1970-01-01.
DaysToYear(y) == 365 * (y - 1970) + LeapsBefore(y) - LeapsBefore(1970)

\* A timestamp of the model lies in these years (its seconds fit 31 bits).
Years == 1970..2038

YearOfDays(days) ==
    CHOOSE y \in Years : DaysToYear(y) <= days /\ days < DaysToYear(y + 1)

\* The days of year y before the first of month m; m = 13 gives the year's length.
DaysBeforeMonth(y, m) ==
    <<0, 31, 59, 90, 120, 151, 181, 212, 243, 273, 304, 334, 365>>[m]
      + (IF m > 2 /\ IsLeap(y) THEN 1 ELSE 0)

\* The day of the year, 1 January = 1.
DayOfYear(days) == days - DaysToYear(YearOfDays(days)) + 1

MonthOfDays(days) ==
    CHOOSE m \in 1..12 :
        /\ DaysBeforeMonth(YearOfDays(days), m) < DayOfYear(days)
        /\ DayOfYear(days) <= DaysBeforeMonth(YearOfDays(days), m + 1)

\* Monday = 1 .. Sunday = 7; 1970-01-01 was a Thursday.
IsoWeekday(days) == ((days + 3) % 7) + 1

\* The ISO 8601 weeks of year y: 53 when 1 January or 31 December is a Thursday.
IsoWeeksInYear(y) ==
    IF IsoWeekday(DaysToYear(y)) = 4 \/ IsoWeekday(DaysToYear(y + 1) - 1) = 4
    THEN 53 ELSE 52

IsoWeek(days) == (DayOfYear(days) - IsoWeekday(days) + 10) \div 7

hour(t) == (t.sec \div 3600) % 24

\* Sunday = 1 .. Saturday = 7
dayofweek(t) == ((DaysOf(t) + 4) % 7) + 1

month(t) == MonthOfDays(DaysOf(t))

year(t) == YearOfDays(DaysOf(t))

\* ISO 8601 week number
weekofyear(t) ==
    IF IsoWeek(DaysOf(t)) < 1 THEN IsoWeeksInYear(year(t) - 1)
    ELSE IF IsoWeek(DaysOf(t)) > IsoWeeksInYear(year(t)) THEN 1
    ELSE IsoWeek(DaysOf(t))

-----------------------------------------------------------------------------
(* process_log_data *)

log_data_schema ==
    << <<"artist", "string">>, <<"auth", "string">>, <<"firstName", "string">>,
       <<"gender", "string">>, <<"itemInSession", "long">>, <<"lastName", "string">>,
       <<"length", "double">>, <<"level", "string">>, <<"location", "string">>,
       <<"method", "string">>, <<"page", "string">>, <<"registration", "double">>,
       <<"sessionId", "long">>, <<"song", "string">>, <<"status", "long">>,
       <<"ts", "long">>, <<"userAgent", "string">>, <<"userId", "string">> >>

users_columns == <<"firstName", "lastName", "gender", "level", "userId">>

time_columns == <<"start_time", "hour", "day", "week", "month", "year", "weekday">>

\* The result of a Python UDF on one value: the value, or an exception.
Value(v) == [ok |-> TRUE, val |-> v]
Raises == [ok |-> FALSE, val |-> Null]

\* udf(lambda x: datetime.datetime.fromtimestamp(x / 1000), TimestampType()):
\* the division keeps the milliseconds as a fraction of the second.
get_timestamp(x) == Value([sec |-> x[1], micros |-> x[2] * 1000])

\* udf(lambda x: F.to_date(x), TimestampType()): the lambda runs in a Python
\* worker and calls a column function on an int; column functions build JVM
\* expressions from columns on the driver, so the call raises for every x.
get_datetime(x) == Raises

\* log_df with the filter of line 134 left out.
unfiltered_log_df(records) == read_json_schema(records, log_data_schema)

\* log_df as filtered at line 134.
filtered_log_df(records) ==
    filter_page(read_json_schema(records, log_data_schema), "NextSong")

derived_columns == {"timestamp", "start_time", "hour", "day", "week", "month", "year",
                    "weekday"}

\* The value of a column the withColumn calls of lines 144-156 add to row r.
derived(r, c) ==
    LET timestamp == get_timestamp(r.ts).val
    IN CASE c = "timestamp" -> timestamp
         [] c = "start_time" -> get_datetime(r.ts).val
         [] c = "hour" -> hour(timestamp)
         [] c = "day" -> dayofweek(timestamp)
         [] c = "week" -> weekofyear(timestamp)
         [] c = "month" -> month(timestamp)
         [] c = "year" -> year(timestamp)
         [] c = "weekday" -> dayofweek(timestamp)

\* A job over log_df with the columns of lines 144-156: the columns are
\* computed when the job runs, and a UDF that raises on a row fails the job.
evaluate_log_df(df) ==
    IF \E i \in 1..Len(df.rows) :
          ~get_timestamp(df.rows[i].ts).ok \/ ~get_datetime(df.rows[i].ts).ok
    THEN [ok |-> FALSE, df |-> [columns |-> {}, rows |-> <<>>]]
    ELSE [ok |-> TRUE,
          df |-> [columns |-> df.columns \cup derived_columns,
                  rows |-> [i \in 1..Len(df.rows) |->
                              [c \in df.columns \cup derived_columns |->
                                 IF c \in derived_columns
                                 THEN derived(df.rows[i], c)
                                 ELSE df.rows[i][c]]]]]

\* Lines 117-140: read, filter, project users, write users.
run_users_stage(records, st) ==
    LET log_df == filtered_log_df(records)
        users_table == select(log_df, users_columns)
        w == write_parquet(st, "users_table", users_table.df.rows, <<>>)
    IN IF ~w.ok THEN Outcome(st, <<>>, 140)
       ELSE Outcome(w.store, <<"users_table">>, 0)

\* Lines 143-161: derive the time columns, project time, write time.
run_time_stage(records, st) ==
    LET log_df == evaluate_log_df(filtered_log_df(records))
        time_table == select(log_df.df, time_columns)
    IN IF st["time_table"].exists \/ ~log_df.ok THEN Outcome(st, <<>>, 161)
       ELSE
       LET w == write_parquet(st, "time_table", time_table.df.rows, <<"year", "month">>)
       IN Outcome(w.store, <<"time_table">>, 0)

\* The columns of song_df_table the query of lines 171-187 names.
sql_song_columns == {"artist_name", "song_id", "artist_id"}

\* The query of lines 171-187 on the rows of log_df_table, song_df_table and
\* time_table; a null artist or artist_name equals nothing.
songplays_query(lt_rows, st_rows, tt_rows) ==
    { [start_time |-> lt_rows[i].start_time, userId |-> lt_rows[i].userId,
       level |-> lt_rows[i].level, sessionId |-> lt_rows[i].sessionId,
       location |-> lt_rows[i].location, userAgent |-> lt_rows[i].userAgent,
       song_id |-> st_rows[j].song_id, artist_id |-> st_rows[j].artist_id,
       year |-> tt_rows[k].year, month |-> tt_rows[k].month] :
      <<i, j, k>> \in
        { x \in (1..Len(lt_rows)) \X (1..Len(st_rows)) \X (1..Len(tt_rows)) :
            /\ st_rows[x[2]].artist_name # Null
            /\ lt_rows[x[1]].artist # Null
            /\ st_rows[x[2]].artist_name = lt_rows[x[1]].artist
            /\ tt_rows[x[3]].start_time = lt_rows[x[1]].start_time } }

\* The partitions the rows of the DISTINCT query come out in: row i of the
\* result goes to partition ((i - 1) % ShufflePartitions) + 1.
shuffle(rows) ==
    LET seq == SetToSeq(rows)
        count(p) == IF Len(seq) < p THEN 0 ELSE (Len(seq) - p) \div ShufflePartitions + 1
    IN [p \in 1..ShufflePartitions |->
          [k \in 1..count(p) |-> seq[(k - 1) * ShufflePartitions + p]]]

\* An id that drops the partition index: the row's index within its partition.
row_index_id(p, i) == <<0, i - 1>>

\* monotonically_increasing_id() for row i of partition p: the partition
\* index in the upper 31 bits and the row's index within the partition in the
\* lower 33 bits, kept as the pair <<upper, lower>>.
monotonically_increasing_id(p, i) == <<p - 1, i - 1>>

\* withColumn("songplay_id", monotonically_increasing_id()) on a partitioned
\* dataframe.
with_songplay_id(parts) ==
    [p \in 1..Len(parts) |->
       [i \in 1..Len(parts[p]) |->
          [c \in DOMAIN parts[p][i] \cup {"songplay_id"} |->
             IF c = "songplay_id" THEN monotonically_increasing_id(p, i)
             ELSE parts[p][i][c]]]]

RECURSIVE Flatten(_)
Flatten(parts) ==
    IF parts = <<>> THEN <<>> ELSE Head(parts) \o Flatten(Tail(parts))

\* Lines 165-193: read the songs again, join, number the rows, write songplays.
\* The result carries the partitioned dataframes of lines 171 and 190 too.
run_songplays_stage(log_records, song_records, st) ==
    LET song_df == read_json_infer(song_records)
        log_df == evaluate_log_df(filtered_log_df(log_records))
        time_table == select(log_df.df, time_columns)
        raised(line) == [store |-> st, wrote |-> <<>>, parts |-> <<>>, ids |-> <<>>,
                         line |-> line]
    IN IF ~(sql_song_columns \subseteq song_df.columns) THEN raised(171)
       ELSE IF st["songplays_table"].exists \/ ~log_df.ok THEN raised(193)
       ELSE
       LET parts == shuffle(songplays_query(log_df.df.rows, song_df.rows,
                                            time_table.df.rows))
           songplays_table == with_songplay_id(parts)
           w == write_parquet(st, "songplays_table", Flatten(songplays_table),
                              <<"year", "month">>)
       IN [store |-> w.store, wrote |-> <<"songplays_table">>, parts |-> parts,
           ids |-> songplays_table, line |-> 0]

-----------------------------------------------------------------------------
(* The run *)

\* SparkSession.builder...getOrCreate(): the process's session is reused
\* when there is one.
getOrCreate(n) == IF n = 0 THEN 1 ELSE n

\* A run that goes on after a statement raised.
next_pc_swallowed(line, next) == next

\* Nothing in etl.py catches an exception: a statement that raised at `line`
\* ends the run, and otherwise the run goes on at `next`.
next_pc(line, next) == IF line = 0 THEN next ELSE "failed"

\* A main that calls process_log_data whether or not process_song_data raised.
after_song_data_swallowed(e, line) ==
    IF e = "main" THEN "log" ELSE IF line # 0 THEN "failed" ELSE "done"

\* What follows process_song_data: main calls process_log_data after it
\* returns, a caller of process_song_data alone is done.
after_song_data(e, line) ==
    IF line # 0 THEN "failed" ELSE IF e = "main" THEN "log" ELSE "done"

Init ==
    /\ entry \in {"main", "song", "log"}
    /\ pc = (CASE entry = "main" -> "start" [] entry = "song" -> "song"
               [] entry = "log" -> "log")
    /\ song_data \in SeqsUpTo(SongRecords, MaxSongs)
    /\ log_data \in SeqsUpTo(LogRecords, MaxLogs)
    /\ prior \in PriorChoices
    /\ store = [t \in Tables |-> IF t \in prior THEN PriorContent ELSE Absent]
    /\ written = <<>>
    /\ sessions = (IF entry = "main" THEN 0 ELSE 1)
    /\ songStatus = "not_called"
    /\ logStatus = "not_called"
    /\ raisedAt = 0
    /\ part_df = <<>>
    /\ id_df = <<>>

\* main, line 197
create_spark_session ==
    /\ pc = "start"
    /\ sessions' = getOrCreate(sessions)
    /\ pc' = "song"
    /\ UNCHANGED <<entry, song_data, log_data, store, prior, written, songStatus,
                   logStatus, raisedAt, part_df, id_df>>

\* process_song_data, called by main (line 201) or alone
process_song_data ==
    /\ pc = "song"
    /\ LET r == run_song_data(song_data, store)
       IN /\ store' = r.store
          /\ written' = written \o r.wrote
          /\ raisedAt' = r.line
          /\ songStatus' = (IF r.line = 0 THEN "returned" ELSE "raised")
          /\ pc' = after_song_data(entry, r.line)
    /\ UNCHANGED <<entry, song_data, log_data, prior, sessions, logStatus, part_df,
                   id_df>>

\* process_log_data, called by main (line 202) or alone: lines 117-140
process_log_data_users ==
    /\ pc = "log"
    /\ LET r == run_users_stage(log_data, store)
       IN /\ store' = r.store
          /\ written' = written \o r.wrote
          /\ raisedAt' = r.line
          /\ logStatus' = (IF r.line = 0 THEN "running" ELSE "raised")
          /\ pc' = next_pc(r.line, "log_time")
    /\ UNCHANGED <<entry, song_data, log_data, prior, sessions, songStatus, part_df,
                   id_df>>

\* process_log_data: lines 143-161
process_log_data_time ==
    /\ pc = "log_time"
    /\ LET r == run_time_stage(log_data, store)
       IN /\ store' = r.store
          /\ written' = written \o r.wrote
          /\ raisedAt' = r.line
          /\ logStatus' = (IF r.line = 0 THEN "running" ELSE "raised")
          /\ pc' = next_pc(r.line, "log_songplays")
    /\ UNCHANGED <<entry, song_data, log_data, prior, sessions, songStatus, part_df,
                   id_df>>

\* process_log_data: lines 165-193
process_log_data_songplays ==
    /\ pc = "log_songplays"
    /\ LET r == run_songplays_stage(log_data, song_data, store)
       IN /\ store' = r.store
          /\ written' = written \o r.wrote
          /\ raisedAt' = r.line
          /\ logStatus' = (IF r.line = 0 THEN "returned" ELSE "raised")
          /\ pc' = next_pc(r.line, "done")
          /\ part_df' = r.parts
          /\ id_df' = r.ids
    /\ UNCHANGED <<entry, song_data, log_data, prior, sessions, songStatus>>

Next ==
    \/ create_spark_session
    \/ process_song_data
    \/ process_log_data_users
    \/ process_log_data_time
    \/ process_log_data_songplays

Spec == Init /\ [][Next]_vars

-----------------------------------------------------------------------------
(* Line 190 alone, on any partitioned dataframe of distinct rows *)

JoinedRows == { [userId |-> u, song_id |-> sid] : u \in {"U1", "U2"}, sid \in {"S1", "S2"} }

PartitionedFrames ==
    { f \in [1..ShufflePartitions -> SeqsUpTo(JoinedRows, MaxPartRows)] :
        \A p, q \in 1..ShufflePartitions :
          \A i \in 1..Len(f[p]) : \A j \in 1..Len(f[q]) :
            (f[p][i] = f[q][j]) => (p = q /\ i = j) }

InitIds ==
    /\ entry = "withColumn"
    /\ pc = "songplay_id"
    /\ part_df \in PartitionedFrames
    /\ id_df = <<>>
    /\ song_data = <<>>
    /\ log_data = <<>>
    /\ prior = {}
    /\ store = [t \in Tables |-> Absent]
    /\ written = <<>>
    /\ sessions = 1
    /\ songStatus = "not_called"
    /\ logStatus = "not_called"
    /\ raisedAt = 0

\* line 190
assign_songplay_id ==
    /\ pc = "songplay_id"
    /\ id_df' = with_songplay_id(part_df)
    /\ pc' = "done"
    /\ UNCHANGED <<entry, song_data, log_data, store, prior, written, sessions,
                   songStatus, logStatus, raisedAt, part_df>>

NextIds == assign_songplay_id

SpecIds == InitIds /\ [][NextIds]_vars

-----------------------------------------------------------------------------
(* The claims *)

Wrote(t) == t \in Range(written)

Rows(t) == store[t].rows

\* The log records with page = "NextSong".
Plays == {i \in 1..Len(log_data) : log_data[i].page = "NextSong"}

SongFinished == songStatus \in {"returned", "raised"}

LogFinished == logStatus \in {"returned", "raised"}

IsPrefix(a, b) == Len(a) <= Len(b) /\ \A i \in 1..Len(a) : a[i] = b[i]

\* C1: every row process_log_data writes to users, time or songplays derives
\* from a log record with page = "NextSong"; a record with any other page
\* yields no row of these tables.
C1_OnlyNextSongRows ==
    /\ Wrote("users_table") =>
         /\ Len(Rows("users_table")) <= Cardinality(Plays)
         /\ \A k \in 1..Len(Rows("users_table")) : \E i \in Plays :
              Rows("users_table")[k] = [c \in Range(users_columns) |-> log_data[i][c]]
    /\ Wrote("time_table") =>
         /\ Len(Rows("time_table")) <= Cardinality(Plays)
         /\ \A k \in 1..Len(Rows("time_table")) : \E i \in Plays :
              /\ Rows("time_table")[k].hour = hour(get_timestamp(log_data[i].ts).val)
              /\ Rows("time_table")[k].month = month(get_timestamp(log_data[i].ts).val)
              /\ Rows("time_table")[k].year = year(get_timestamp(log_data[i].ts).val)
    /\ Wrote("songplays_table") =>
         \A k \in 1..Len(Rows("songplays_table")) : \E i \in Plays :
              /\ Rows("songplays_table")[k].userId = log_data[i].userId
              /\ Rows("songplays_table")[k].sessionId = log_data[i].sessionId

\* C1's case: users rows were written from an input that also holds a record
\* of another page.
C1_Witness ==
    /\ Wrote("users_table")
    /\ Len(Rows("users_table")) >= 1
    /\ \E i \in 1..Len(log_data) : log_data[i].page # "NextSong"

\* C2: once process_song_data has run, every song record with a non-null
\* song_id has exactly one row of songs with that song_id, and the row carries
\* the record's title, artist_id, year and duration.
C2_OneSongRowPerSongId ==
    SongFinished =>
      /\ Wrote("songs_table")
      /\ \A i \in 1..Len(song_data) : song_data[i].song_id # Null =>
           /\ Cardinality({k \in 1..Len(Rows("songs_table")) :
                             Rows("songs_table")[k].song_id = song_data[i].song_id}) = 1
           /\ \E k \in 1..Len(Rows("songs_table")) :
                /\ Rows("songs_table")[k].song_id = song_data[i].song_id
                /\ Rows("songs_table")[k].title = song_data[i].title
                /\ Rows("songs_table")[k].artist_id = song_data[i].artist_id
                /\ Rows("songs_table")[k].year = ToString(song_data[i].year)
                /\ Rows("songs_table")[k].duration = song_data[i].duration

\* The tuples C3 names: one per pair of a NextSong log record and a song record
\* of the same artist name, start_time the timestamp of the record's ts.
ClaimedSongplays ==
    { [start_time |-> get_timestamp(log_data[i].ts).val, userId |-> log_data[i].userId,
       level |-> log_data[i].level, sessionId |-> log_data[i].sessionId,
       location |-> log_data[i].location, userAgent |-> log_data[i].userAgent,
       song_id |-> song_data[j].song_id, artist_id |-> song_data[j].artist_id,
       year |-> year(get_timestamp(log_data[i].ts).val),
       month |-> month(get_timestamp(log_data[i].ts).val)] :
      <<i, j>> \in {x \in Plays \X (1..Len(song_data)) :
                      log_data[x[1]].artist = song_data[x[2]].artist_name} }

\* A songplays row without its songplay_id.
Tuple(row) == [c \in DOMAIN row \ {"songplay_id"} |-> row[c]]

\* C3: process_log_data, run on clean output locations, writes songplays as
\* exactly the distinct tuples of the matching (NextSong record, song record)
\* pairs: one row for one matching pair, an empty table and no error for none.
C3_SongplaysAreTheMatchingPairs ==
    (LogFinished /\ prior = {}) =>
      /\ logStatus = "returned"
      /\ Wrote("songplays_table")
      /\ Len(Rows("songplays_table")) = Cardinality(ClaimedSongplays)
      /\ {Tuple(Rows("songplays_table")[k]) : k \in 1..Len(Rows("songplays_table"))}
           = ClaimedSongplays

\* C4: for every NextSong record the start_time written to time and the
\* start_time used as the join key are the same value, so the record finds
\* its own row of time in the join.
C4_StartTimeJoinsItsTimeRow ==
    (LogFinished /\ prior = {}) =>
      \A i \in Plays :
        /\ get_datetime(log_data[i].ts).ok
        /\ Wrote("time_table")
        /\ \E k \in 1..Len(Rows("time_table")) :
             Rows("time_table")[k].start_time = get_datetime(log_data[i].ts).val

\* C5: the rows line 190 numbers all carry a songplay_id, and no two of one
\* run carry the same one.
C5_UniqueSongplayIds ==
    \A i, j \in 1..Len(Flatten(id_df)) :
      /\ "songplay_id" \in DOMAIN Flatten(id_df)[i]
      /\ (Flatten(id_df)[i].songplay_id = Flatten(id_df)[j].songplay_id) => (i = j)

\* C5's case: rows were numbered in two partitions, one of them with two rows.
C5_Witness ==
    /\ pc = "done"
    /\ \E p, q \in 1..Len(id_df) : p # q /\ Len(id_df[p]) >= 2 /\ Len(id_df[q]) >= 1

\* C6: main builds one session, runs process_song_data to its end before
\* process_log_data starts, and never runs process_log_data (and writes none
\* of users, time, songplays) once process_song_data has raised.
C6_SongThenLog ==
    entry = "main" =>
      /\ sessions <= 1
      /\ (pc # "start") => (sessions = 1)
      /\ (songStatus = "not_called") => (logStatus = "not_called")
      /\ (logStatus # "not_called") => (songStatus = "returned")
      /\ (songStatus = "raised") =>
           /\ logStatus = "not_called"
           /\ pc = "failed"
           /\ ~Wrote("users_table") /\ ~Wrote("time_table") /\ ~Wrote("songplays_table")

\* C6's case: in a run of main, process_song_data has raised.
C6_Witness ==
    entry = "main" /\ sessions = 1 /\ songStatus = "raised" /\ pc = "failed"

\* C7: process_log_data, run again where every output location holds an
\* earlier run's content, completes and has written over users and time.
C7_RerunOverwrites ==
    (prior = Tables /\ LogFinished) =>
      /\ logStatus = "returned"
      /\ Wrote("users_table") /\ Wrote("time_table")
      /\ store["users_table"] # PriorContent /\ store["time_table"] # PriorContent

\* C8: process_song_data resolves a projected field that the declared schema
\* lacks (title, num_songs) to null in every row and reaches both writes.
C8_MissingFieldIsNull ==
    (SongFinished /\ prior = {}) =>
      /\ songStatus = "returned"
      /\ Wrote("songs_table") /\ Wrote("artists_table")
      /\ \A k \in 1..Len(Rows("songs_table")) : Rows("songs_table")[k].title = Null
      /\ \A k \in 1..Len(Rows("artists_table")) :
           Rows("artists_table")[k].num_songs = Null

\* C9: artists holds at most one row per artist_id and users at most one row
\* per userId.
C9_UniqueDimensionKeys ==
    /\ Wrote("artists_table") =>
         \A k, l \in 1..Len(Rows("artists_table")) :
           (Rows("artists_table")[k].artist_id = Rows("artists_table")[l].artist_id)
             => (k = l)
    /\ Wrote("users_table") =>
         \A k, l \in 1..Len(Rows("users_table")) :
           (Rows("users_table")[k].userId = Rows("users_table")[l].userId) => (k = l)

WriteOrder == <<"songs_table", "artists_table", "users_table", "time_table",
                "songplays_table">>

\* The part of the order a run writes: all of it for main, a pipeline's own
\* tables when the pipeline is called alone.
OrderOf(e) ==
    CASE e = "main" -> WriteOrder
      [] e = "song" -> SubSeq(WriteOrder, 1, 2)
      [] e = "log" -> SubSeq(WriteOrder, 3, 5)

WrittenInOrder ==
    /\ IsPrefix(written, OrderOf(entry))
    /\ \A t \in Tables :
         /\ store[t].exists = (t \in prior \/ Wrote(t))
         /\ ~Wrote(t) => store[t] = (IF t \in prior THEN PriorContent ELSE Absent)

\* C10: the tables written so far are always a prefix of the order songs,
\* artists, users, time, songplays; a written table stays as written, and
\* once a step has raised nothing more is written.
C10_WritesInFixedOrder ==
    /\ []WrittenInOrder
    /\ [][/\ \A t \in Tables : Wrote(t) => (store'[t] = store[t])
          /\ (raisedAt # 0) => (written' = written /\ store' = store)]_vars

\* C10's case: a step raised after an earlier table of the run was written.
C10_Witness ==
    /\ raisedAt # 0
    /\ pc = "failed"
    /\ written # <<>>
    /\ \A t \in Tables : Wrote(t) => store[t].exists

====
